---- MODULE Spec2Model ----
(***************************************************************************)
(* Model of the two cores of the ADR repository:                           *)
(*   - context_med.truncate_context / truncate_text (token-budgeted        *)
(*     context assembly), specification SpecCtx;                           *)
(*   - onto.get_interaction_report and its two callers (onto.main and      *)
(*     frontend.analyze_drug_interaction), specification SpecReport.       *)
(* Texts are sequences of one-character strings.  Python dicts are         *)
(* modelled as insertion-ordered sequences of [label, value] entries.      *)
(***************************************************************************)
EXTENDS Integers, Sequences, FiniteSets, TLC

VARIABLES
    \* ---- context_med.truncate_context ----
    context,            \* argument: the context dict (ordered entries)
    max_tokens,         \* argument: the token budget
    sections,           \* local dict label -> [content, tokens]
    total_tokens,       \* local running sum (line 141/152)
    remaining_tokens,   \* local (line 159)
    truncated_context,  \* local dict being built (line 158)
    idx,                \* position of the for loop over section_order
    encode_calls,       \* number of tokenizer.encode calls made so far
    decode_calls,       \* number of tokenizer.decode calls made so far
    result,             \* the returned dict
    outcome,            \* "pending" | "returned" | "raised"
    pc,                 \* position inside truncate_context
    \* ---- onto.get_interaction_report and callers ----
    drug_a, drug_b,     \* the two subjects
    rpc,                \* position inside main / analyze / get_interaction_report
    calls,              \* adapter invocations so far: <<[f, drug], ...>>
    outs_a, outs_b,     \* what each source_func call did, in list order
    rets_a, rets_b,     \* what query_source returned, per source, in list order
    report,             \* the returned report (NoReport until built)
    r_outcome,          \* "pending" | "returned" | "raised" | "rejected"
    st_error,           \* frontend: st.error(...) was shown
    \* ---- context_med.truncate_text called on its own ----
    tt_text, tt_n,      \* arguments: the text and the token limit
    tt_once,            \* truncate_text(tt_text, tt_n)
    tt_twice,           \* truncate_text(tt_once, tt_n)
    tt_pc               \* "idle" | "call" | "once" | "twice"

ctxVars == <<context, max_tokens, sections, total_tokens, remaining_tokens,
             truncated_context, idx, encode_calls, decode_calls, result,
             outcome, pc>>
repVars == <<drug_a, drug_b, rpc, calls, outs_a, outs_b, rets_a, rets_b,
             report, r_outcome, st_error>>
truncVars == <<tt_text, tt_n, tt_once, tt_twice, tt_pc>>
vars == <<ctxVars, repVars, truncVars>>

(***************************************************************************)
(* Bounds of the explored input space.                                     *)
(***************************************************************************)
MaxLen == 4        \* longest scalar text, in characters
MaxItems == 2      \* longest list value, in items
MaxBudget == 5     \* largest max_tokens explored
NegBudget == 2     \* max_tokens ranges down to -NegBudget

Min(a, b) == IF a <= b THEN a ELSE b
Max(a, b) == IF a >= b THEN a ELSE b

(***************************************************************************)
(* Tokenizer: tiktoken cl100k_base restricted to texts made of decimal     *)
(* digits and newlines.  Its pre-tokenizer splits a digit run into chunks  *)
(* of at most three digits from the left (\p{N}{1,3}) and takes a run of   *)
(* newlines as one piece (\s*[\r\n]+); each such piece is one token.       *)
(***************************************************************************)
NL == "\n"
DigitChars == {"0", "1", "2", "3", "4", "5", "6", "7", "8", "9"}
MaxDigitsPerToken == 3

RECURSIVE RunLen(_, _, _)
\* length of the longest prefix of text made of characters of set cs, capped
RunLen(text, cs, cap) ==
    IF text = <<>> \/ cap = 0 \/ Head(text) \notin cs THEN 0
    ELSE 1 + RunLen(Tail(text), cs, cap - 1)

RECURSIVE Encode(_)
Encode(text) ==
    IF text = <<>> THEN <<>>
    ELSE LET n == IF Head(text) \in DigitChars
                     THEN RunLen(text, DigitChars, MaxDigitsPerToken)
                  ELSE IF Head(text) = NL
                     THEN RunLen(text, {NL}, Len(text))
                  ELSE 1
         IN  <<SubSeq(text, 1, n)>> \o Encode(SubSeq(text, n + 1, Len(text)))

RECURSIVE Decode(_)
Decode(tokens) ==
    IF tokens = <<>> THEN <<>> ELSE Head(tokens) \o Decode(Tail(tokens))

\* Python's seq[:n]: a negative n counts from the end
PySlicePrefix(seq, n) ==
    IF n >= 0 THEN SubSeq(seq, 1, Min(n, Len(seq)))
    ELSE SubSeq(seq, 1, Max(Len(seq) + n, 0))

truncate_text(text, maxTok) ==
    LET tokens == Encode(text)
    IN  Decode(IF Len(tokens) > maxTok THEN PySlicePrefix(tokens, maxTok)
               ELSE tokens)

count_tokens(text) == Len(Encode(text))

(***************************************************************************)
(* Values and dicts.                                                       *)
(***************************************************************************)
StrVal(t) == [kind |-> "str", text |-> t, items |-> <<>>]
ListVal(its) == [kind |-> "list", text |-> <<>>, items |-> its]

RECURSIVE JoinNL(_)
\* "\n".join(str(item) for item in value)
JoinNL(its) ==
    IF its = <<>> THEN <<>>
    ELSE IF Len(its) = 1 THEN its[1]
    ELSE its[1] \o <<NL>> \o JoinNL(Tail(its))

\* lines 143-146
Serialize(value) ==
    IF value.kind = "list" THEN JoinNL(value.items) ELSE value.text

Keys(d) == {d[i].label : i \in 1..Len(d)}
Has(d, k) == k \in Keys(d)
Get(d, k) == (CHOOSE e \in {d[i] : i \in 1..Len(d)} : e.label = k).value
\* d[k] = v for a key not yet in d
Put(d, k, v) == Append(d, [label |-> k, value |-> v])

RECURSIVE SumTokens(_)
\* token total of a dict of values, each measured on its serialization
SumTokens(d) ==
    IF d = <<>> THEN 0
    ELSE count_tokens(Serialize(d[1].value)) + SumTokens(Tail(d))

(***************************************************************************)
(* Inputs of truncate_context.  get_context (lines 23-35) inserts the keys *)
(* in the order of ContextKeys; the first three hold scalars, the last two *)
(* hold lists.  A key may also be missing from the dict.                   *)
(***************************************************************************)
ContextKeys == <<"Drug Name", "PubChem Data", "Wikipedia Summary",
                 "PubMed Articles", "arXiv Articles">>
section_order == <<"PubChem Data", "Wikipedia Summary", "PubMed Articles",
                   "arXiv Articles">>

DigitCycle == <<"1", "2", "3", "4">>
\* the text of n characters "12341234..."
Text(n) == [i \in 1..n |-> DigitCycle[((i - 1) % Len(DigitCycle)) + 1]]
\* the list of k items "1", "12", "123", ...
Items(k) == [i \in 1..k |-> Text(i)]

Absent == [kind |-> "absent", text |-> <<>>, items |-> <<>>]
ScalarChoices == {Absent} \cup {StrVal(Text(n)) : n \in 0..MaxLen}
ListChoices == {Absent} \cup {ListVal(Items(k)) : k \in 0..MaxItems}

MkContext(vals) ==
    SelectSeq([i \in 1..Len(ContextKeys) |->
                  [label |-> ContextKeys[i], value |-> vals[i]]],
              LAMBDA e : e.value.kind # "absent")

Contexts ==
    {MkContext(<<d, p, w, m, x>>) :
        d \in ScalarChoices, p \in ScalarChoices, w \in ScalarChoices,
        m \in ListChoices, x \in ListChoices}

Budgets == (0 - NegBudget)..MaxBudget

(***************************************************************************)
(* truncate_context, lines 125-172.                                        *)
(***************************************************************************)
\* lines 140-151: the sections dict built by the first loop
MeasureSections(ctx) ==
    [i \in 1..Len(ctx) |->
        [label |-> ctx[i].label,
         value |-> [content |-> Serialize(ctx[i].value),
                    tokens  |-> count_tokens(Serialize(ctx[i].value))]]]

RECURSIVE SectionTotal(_)
\* line 152: total_tokens += token_count, over the whole loop
SectionTotal(secs) ==
    IF secs = <<>> THEN 0
    ELSE secs[1].value.tokens + SectionTotal(Tail(secs))

\* line 154 with < in place of <=
WithinBudgetStrict(total, maxTok) == total < maxTok

\* line 154
WithinBudget(total, maxTok) == total <= maxTok

\* line 163 with < in place of <=
FitsStrict(tokens, remaining) == tokens < remaining

\* line 163
Fits(tokens, remaining) == tokens <= remaining

\* line 170 without the break: the loop goes on to the next section
AfterCutNoBreak(i) == i + 1

\* line 170: break leaves the loop
AfterCut(i) == Len(section_order) + 1

\* line 155: the context object itself is returned
WholeContext(ctx) == ctx

Measure ==
    /\ pc = "start"
    /\ sections' = MeasureSections(context)
    /\ total_tokens' = SectionTotal(MeasureSections(context))
    /\ encode_calls' = encode_calls + Len(context)
    /\ pc' = "check"
    /\ UNCHANGED <<context, max_tokens, remaining_tokens, truncated_context,
                   idx, decode_calls, result, outcome>>

ReturnContext ==
    /\ pc = "check"
    /\ WithinBudget(total_tokens, max_tokens)
    /\ result' = WholeContext(context)
    /\ outcome' = "returned"
    /\ pc' = "done"
    /\ UNCHANGED <<context, max_tokens, sections, total_tokens,
                   remaining_tokens, truncated_context, idx, encode_calls,
                   decode_calls>>

\* lines 157-159
BeginWalk ==
    /\ pc = "check"
    /\ ~WithinBudget(total_tokens, max_tokens)
    /\ truncated_context' = <<>>
    /\ remaining_tokens' = max_tokens
    /\ idx' = 1
    /\ pc' = "walk"
    /\ UNCHANGED <<context, max_tokens, sections, total_tokens, encode_calls,
                   decode_calls, result, outcome>>

\* line 162, false branch
WalkAbsent ==
    /\ pc = "walk"
    /\ idx <= Len(section_order)
    /\ ~Has(sections, section_order[idx])
    /\ idx' = idx + 1
    /\ UNCHANGED <<context, max_tokens, sections, total_tokens,
                   remaining_tokens, truncated_context, encode_calls,
                   decode_calls, result, outcome, pc>>

\* lines 163-165
WalkWhole ==
    /\ pc = "walk"
    /\ idx <= Len(section_order)
    /\ Has(sections, section_order[idx])
    /\ LET section == section_order[idx]
           sec == Get(sections, section)
       IN  /\ Fits(sec.tokens, remaining_tokens)
           /\ truncated_context' =
                  Put(truncated_context, section, Get(context, section))
           /\ remaining_tokens' = remaining_tokens - sec.tokens
    /\ idx' = idx + 1
    /\ UNCHANGED <<context, max_tokens, sections, total_tokens, encode_calls,
                   decode_calls, result, outcome, pc>>

\* lines 166-170
WalkCut ==
    /\ pc = "walk"
    /\ idx <= Len(section_order)
    /\ Has(sections, section_order[idx])
    /\ LET section == section_order[idx]
           sec == Get(sections, section)
       IN  /\ ~Fits(sec.tokens, remaining_tokens)
           /\ truncated_context' =
                  Put(truncated_context, section,
                      StrVal(truncate_text(sec.content, remaining_tokens)))
    /\ encode_calls' = encode_calls + 1
    /\ decode_calls' = decode_calls + 1
    /\ idx' = AfterCut(idx)
    /\ UNCHANGED <<context, max_tokens, sections, total_tokens,
                   remaining_tokens, result, outcome, pc>>

\* line 172
ReturnTruncated ==
    /\ pc = "walk"
    /\ idx > Len(section_order)
    /\ result' = truncated_context
    /\ outcome' = "returned"
    /\ pc' = "done"
    /\ UNCHANGED <<context, max_tokens, sections, total_tokens,
                   remaining_tokens, truncated_context, idx, encode_calls,
                   decode_calls>>

CtxIdle ==
    /\ context = <<>> /\ max_tokens = 0 /\ sections = <<>>
    /\ total_tokens = 0 /\ remaining_tokens = 0 /\ truncated_context = <<>>
    /\ idx = 0 /\ encode_calls = 0 /\ decode_calls = 0 /\ result = <<>>
    /\ outcome = "pending" /\ pc = "idle"

NoReport == [drug_a |-> "", drug_b |-> "", direct |-> FALSE, common |-> {},
             neighbors_a |-> {}, neighbors_b |-> {}]

RepIdle ==
    /\ drug_a = "" /\ drug_b = "" /\ rpc = "idle" /\ calls = <<>>
    /\ outs_a = <<>> /\ outs_b = <<>>
    /\ rets_a = <<>> /\ rets_b = <<>> /\ report = NoReport
    /\ r_outcome = "pending" /\ st_error = FALSE

TruncIdle ==
    /\ tt_text = <<>> /\ tt_n = 0 /\ tt_once = <<>> /\ tt_twice = <<>>
    /\ tt_pc = "idle"

InitCtx ==
    /\ context \in Contexts
    /\ max_tokens \in Budgets
    /\ sections = <<>> /\ total_tokens = 0 /\ remaining_tokens = 0
    /\ truncated_context = <<>> /\ idx = 0
    /\ encode_calls = 0 /\ decode_calls = 0
    /\ result = <<>> /\ outcome = "pending" /\ pc = "start"
    /\ RepIdle
    /\ TruncIdle

NextCtx ==
    /\ \/ Measure
       \/ ReturnContext
       \/ BeginWalk
       \/ WalkAbsent
       \/ WalkWhole
       \/ WalkCut
       \/ ReturnTruncated
    /\ UNCHANGED <<repVars, truncVars>>

SpecCtx == InitCtx /\ [][NextCtx]_vars

(***************************************************************************)
(* onto.get_interaction_report and its callers.                            *)
(* A call source_func(drug) either returns a set of names or raises.       *)
(***************************************************************************)
sources == <<"query_dbpedia", "query_wikidata", "query_google_kg">>
Names == {"x", "y"}
Subjects == {""} \cup Names

Returns(s) == [ok |-> TRUE, val |-> s]
Raises == [ok |-> FALSE, val |-> {}]
AdapterOutcomes == {Raises} \cup {Returns(s) : s \in SUBSET Names}

\* lines 26-30 without the try/except: the exception leaves query_source
query_source_nocatch(out) == [exc |-> ~out.ok, val |-> out.val]

\* lines 26-30, with a bare except that returns set(); exc tells whether an
\* exception leaves query_source
query_source(out) ==
    IF out.ok THEN [exc |-> FALSE, val |-> out.val]
    ELSE [exc |-> FALSE, val |-> {}]

\* lines 34-35 keeping only the last source's result
UnionAllLast(rets) == IF rets = <<>> THEN {} ELSE rets[Len(rets)]

RECURSIVE UnionAll(_)
\* set().union(*rets), lines 34-35
UnionAll(rets) ==
    IF rets = <<>> THEN {} ELSE rets[1] \cup UnionAll(Tail(rets))

\* line 40 with and in place of or
DirectMutual(a, b, na, nb) == b \in na /\ a \in nb

\* line 40
Direct(a, b, na, nb) == b \in na \/ a \in nb

\* line 41 with | in place of &
CommonAsUnion(na, nb) == na \cup nb

\* line 41
Common(na, nb) == na \cap nb

\* onto.main, lines 105-107: get_user_input has stripped both names
MainCall ==
    /\ rpc = "main"
    /\ rpc' = "query_a"
    /\ UNCHANGED <<drug_a, drug_b, calls, outs_a, outs_b, rets_a, rets_b,
                   report, r_outcome, st_error>>

\* frontend.analyze_drug_interaction, lines 253-255
AnalyzeReject ==
    /\ rpc = "analyze"
    /\ drug_a = "" \/ drug_b = ""
    /\ st_error' = TRUE
    /\ r_outcome' = "rejected"
    /\ rpc' = "done"
    /\ UNCHANGED <<drug_a, drug_b, calls, outs_a, outs_b, rets_a, rets_b,
                   report>>

\* frontend.analyze_drug_interaction, lines 257-259
AnalyzeCall ==
    /\ rpc = "analyze"
    /\ ~(drug_a = "" \/ drug_b = "")
    /\ rpc' = "query_a"
    /\ UNCHANGED <<drug_a, drug_b, calls, outs_a, outs_b, rets_a, rets_b,
                   report, r_outcome, st_error>>

\* line 34: one element of the list comprehension over sources, for drug_a
QueryA ==
    /\ rpc = "query_a"
    /\ \E out \in AdapterOutcomes :
          LET f == sources[Len(rets_a) + 1]
              r == query_source(out)
          IN  /\ calls' = Append(calls, [f |-> f, drug |-> drug_a])
              /\ outs_a' = Append(outs_a, out)
              /\ IF r.exc
                    THEN /\ r_outcome' = "raised"
                         /\ rpc' = "done"
                         /\ UNCHANGED rets_a
                    ELSE /\ rets_a' = Append(rets_a, r.val)
                         /\ rpc' = IF Len(rets_a) + 1 = Len(sources)
                                      THEN "query_b" ELSE "query_a"
                         /\ UNCHANGED r_outcome
    /\ UNCHANGED <<drug_a, drug_b, outs_b, rets_b, report, st_error>>

\* line 35: one element of the list comprehension over sources, for drug_b
QueryB ==
    /\ rpc = "query_b"
    /\ \E out \in AdapterOutcomes :
          LET f == sources[Len(rets_b) + 1]
              r == query_source(out)
          IN  /\ calls' = Append(calls, [f |-> f, drug |-> drug_b])
              /\ outs_b' = Append(outs_b, out)
              /\ IF r.exc
                    THEN /\ r_outcome' = "raised"
                         /\ rpc' = "done"
                         /\ UNCHANGED rets_b
                    ELSE /\ rets_b' = Append(rets_b, r.val)
                         /\ rpc' = IF Len(rets_b) + 1 = Len(sources)
                                      THEN "build" ELSE "query_b"
                         /\ UNCHANGED r_outcome
    /\ UNCHANGED <<drug_a, drug_b, outs_a, rets_a, report, st_error>>

\* lines 34-44: the two unions and the returned dict
BuildReport ==
    /\ rpc = "build"
    /\ LET neighbors_a == UnionAll(rets_a)
           neighbors_b == UnionAll(rets_b)
       IN  report' = [drug_a |-> drug_a,
                      drug_b |-> drug_b,
                      direct |-> Direct(drug_a, drug_b, neighbors_a, neighbors_b),
                      common |-> Common(neighbors_a, neighbors_b),
                      neighbors_a |-> neighbors_a,
                      neighbors_b |-> neighbors_b]
    /\ r_outcome' = "returned"
    /\ rpc' = "done"
    /\ UNCHANGED <<drug_a, drug_b, calls, outs_a, outs_b, rets_a, rets_b,
                   st_error>>

InitReport ==
    /\ drug_a \in Subjects
    /\ drug_b \in Subjects
    /\ rpc \in {"main", "analyze"}
    /\ calls = <<>> /\ outs_a = <<>> /\ outs_b = <<>>
    /\ rets_a = <<>> /\ rets_b = <<>>
    /\ report = NoReport /\ r_outcome = "pending" /\ st_error = FALSE
    /\ CtxIdle
    /\ TruncIdle

NextReport ==
    /\ \/ MainCall
       \/ AnalyzeReject
       \/ AnalyzeCall
       \/ QueryA
       \/ QueryB
       \/ BuildReport
    /\ UNCHANGED <<ctxVars, truncVars>>

SpecReport == InitReport /\ [][NextReport]_vars

(***************************************************************************)
(* get_interaction_report when a source call may also never return: the    *)
(* requests.get of query_google_kg (lines 95-98) and the SPARQLWrapper      *)
(* queries (lines 81, 92) are made without a timeout, one after the other   *)
(* on the calling thread.                                                   *)
(***************************************************************************)
\* line 34: source_func(drug_a) never returns
HangA ==
    /\ rpc = "query_a"
    /\ calls' = Append(calls, [f |-> sources[Len(rets_a) + 1], drug |-> drug_a])
    /\ rpc' = "blocked"
    /\ UNCHANGED <<drug_a, drug_b, outs_a, outs_b, rets_a, rets_b, report,
                   r_outcome, st_error>>

\* line 35: source_func(drug_b) never returns
HangB ==
    /\ rpc = "query_b"
    /\ calls' = Append(calls, [f |-> sources[Len(rets_b) + 1], drug |-> drug_b])
    /\ rpc' = "blocked"
    /\ UNCHANGED <<drug_a, drug_b, outs_a, outs_b, rets_a, rets_b, report,
                   r_outcome, st_error>>

NextHang ==
    /\ \/ MainCall
       \/ AnalyzeReject
       \/ AnalyzeCall
       \/ QueryA
       \/ QueryB
       \/ BuildReport
       \/ HangA
       \/ HangB
    /\ UNCHANGED <<ctxVars, truncVars>>

\* the interpreter goes on with the calling thread whenever it has a step
SpecHang == InitReport /\ [][NextHang]_vars /\ WF_vars(NextHang)

(***************************************************************************)
(* truncate_text, lines 174-189, applied to a text and a limit, and then   *)
(* once more to its own output with the same limit.                        *)
(***************************************************************************)
\* serialized section contents: digit texts and newline-joined lists
TruncTexts ==
    {Text(n) : n \in 0..(2 * MaxLen)} \cup
    {JoinNL(Items(k)) : k \in 0..MaxItems}

TruncateOnce ==
    /\ tt_pc = "call"
    /\ tt_once' = truncate_text(tt_text, tt_n)
    /\ tt_pc' = "once"
    /\ UNCHANGED <<tt_text, tt_n, tt_twice>>

TruncateAgain ==
    /\ tt_pc = "once"
    /\ tt_twice' = truncate_text(tt_once, tt_n)
    /\ tt_pc' = "twice"
    /\ UNCHANGED <<tt_text, tt_n, tt_once>>

InitTrunc ==
    /\ tt_text \in TruncTexts
    /\ tt_n \in Budgets
    /\ tt_once = <<>> /\ tt_twice = <<>>
    /\ tt_pc = "call"
    /\ CtxIdle
    /\ RepIdle

NextTrunc ==
    /\ \/ TruncateOnce
       \/ TruncateAgain
    /\ UNCHANGED <<ctxVars, repVars>>

SpecTrunc == InitTrunc /\ [][NextTrunc]_vars

(***************************************************************************)
(* Properties of truncate_context, checked under SpecCtx.                  *)
(***************************************************************************)
Returned == outcome = "returned"
InputTotal == SumTokens(context)
OverBudget == InputTotal > max_tokens
\* position of a label in section_order
Priority(label) == CHOOSE i \in 1..Len(section_order) : section_order[i] = label
Ordered == {section_order[i] : i \in 1..Len(section_order)}
\* an output entry whose value is not the input value of its label
IsTruncated(e) == e.value # Get(context, e.label)
TruncatedAt == {i \in 1..Len(result) : IsTruncated(result[i])}

\* C1: the sections returned by truncate_context never total more than
\* max_tokens, whatever the context and whatever the integer max_tokens
\* (zero and negative included).
C1_TotalWithinBudget == Returned => SumTokens(result) <= max_tokens

\* C2: when the input total is at most max_tokens, every input section is
\* returned with its input value and the output total equals the input total.
C2_UnderBudgetUnmodified ==
    (Returned /\ InputTotal <= max_tokens) =>
        /\ Keys(result) = Keys(context)
        /\ \A k \in Keys(context) : Get(result, k) = Get(context, k)
        /\ SumTokens(result) = InputTotal

C2_Witness ==
    /\ Returned /\ pc = "done"
    /\ InputTotal <= max_tokens
    /\ InputTotal = max_tokens
    /\ Has(context, "Drug Name")
    /\ Len(context) >= 3
    /\ InputTotal >= 3

\* C3: when the input total exceeds max_tokens, at most one output section is
\* truncated, it is the last entry of the output, and no section of lower
\* priority than it appears in the output.
C3_CutIsLast ==
    (Returned /\ OverBudget) =>
        /\ Cardinality(TruncatedAt) <= 1
        /\ \A i \in TruncatedAt :
              /\ i = Len(result)
              /\ \A s \in Ordered :
                    Priority(s) > Priority(result[i].label) => ~Has(result, s)

C3_Witness ==
    /\ Returned /\ OverBudget
    /\ Len(result) >= 2
    /\ TruncatedAt = {Len(result)}
    /\ \E s \in Keys(context) \cap Ordered :
          /\ Priority(s) > Priority(result[Len(result)].label)
          /\ count_tokens(Serialize(Get(context, s))) <= 1
          /\ ~Has(result, s)

\* C4: when the input total exceeds max_tokens and some section does not fit,
\* the output total equals max_tokens exactly.
C4_CutFillsBudget ==
    (Returned /\ OverBudget /\ TruncatedAt # {}) =>
        SumTokens(result) = max_tokens

\* C5: with max_tokens <= 0 truncate_context fails with a validation error
\* before any tokenizer encode or decode call, and returns no bundle.
C5_NonPositiveBudgetRejected ==
    (pc # "idle" /\ max_tokens <= 0) =>
        /\ encode_calls = 0
        /\ decode_calls = 0
        /\ outcome # "returned"
        /\ pc = "done" => outcome = "raised"

\* token total of the first i entries of a dict
PrefixTokens(d, i) == SumTokens(SubSeq(d, 1, i))

\* C11: on the over-budget path every input section that precedes the first
\* non-fitting one (each section taking its tokens from the remaining budget
\* at its turn, "Drug Name" included) is in the output with its input value.
C11_FittingSectionsKept ==
    (Returned /\ OverBudget) =>
        \A i \in 1..Len(context) :
            PrefixTokens(context, i) <= max_tokens =>
                /\ Has(result, context[i].label)
                /\ Get(result, context[i].label) = context[i].value

\* C14: on the walk, with remaining_tokens = 0, a present section of at least
\* one token is emitted with empty content and the walk stops; a present
\* section of zero tokens is emitted with its input value and the walk goes on.
C14_ZeroRemainingStep ==
    [][(/\ pc = "walk"
        /\ idx <= Len(section_order)
        /\ remaining_tokens = 0
        /\ Has(context, section_order[Min(idx, Len(section_order))]))
       => LET section == section_order[idx]
              tokens == count_tokens(Serialize(Get(context, section)))
          IN  IF tokens >= 1
                 THEN /\ truncated_context' =
                            Put(truncated_context, section, StrVal(<<>>))
                      /\ idx' > Len(section_order)
                      /\ remaining_tokens' = 0
                 ELSE /\ truncated_context' =
                            Put(truncated_context, section,
                                Get(context, section))
                      /\ idx' = idx + 1
                      /\ remaining_tokens' = 0]_vars

C14_Witness ==
    /\ Returned /\ OverBudget
    /\ max_tokens >= 1
    /\ Len(result) = 3
    /\ count_tokens(Serialize(result[1].value)) = max_tokens
    /\ ~IsTruncated(result[2])
    /\ count_tokens(Serialize(result[2].value)) = 0
    /\ result[3].value = StrVal(<<>>)
    /\ count_tokens(Serialize(Get(context, result[3].label))) >= 1

(***************************************************************************)
(* Properties of get_interaction_report, checked under SpecReport.         *)
(***************************************************************************)
ReportReturned == r_outcome = "returned"
\* the union of what the sources that answered returned
Answered(outs) == UNION {outs[i].val : i \in {j \in 1..Len(outs) : outs[j].ok}}
Orderings(n) == {p \in [1..n -> 1..n] : \A i \in 1..n : \E j \in 1..n : p[j] = i}
Permuted(seq, p) == [i \in 1..Len(seq) |-> seq[p[i]]]
ExpectedCalls ==
    [i \in 1..Len(sources) |-> [f |-> sources[i], drug |-> drug_a]] \o
    [i \in 1..Len(sources) |-> [f |-> sources[i], drug |-> drug_b]]

\* C6: with an empty drug_a or drug_b, get_interaction_report fails with a
\* validation error before any source adapter is invoked, and no report is
\* returned.
C6_EmptySubjectRejected ==
    (rpc # "idle" /\ (drug_a = "" \/ drug_b = "")) =>
        /\ calls = <<>>
        /\ ~ReportReturned
        /\ rpc = "done" => r_outcome = "rejected"

\* C7: in every returned report, common is the intersection of neighbors_a
\* and neighbors_b.
C7_CommonIsIntersection ==
    ReportReturned =>
        report.common = report.neighbors_a \cap report.neighbors_b

C7_Witness ==
    /\ ReportReturned
    /\ report.common # {}
    /\ report.neighbors_a # report.neighbors_b
    /\ \E i \in 1..Len(outs_a) : ~outs_a[i].ok

\* C8: in every returned report, direct holds exactly when drug_b is in
\* neighbors_a or drug_a is in neighbors_b, and is false when both neighbor
\* sets are empty.
C8_DirectIsEitherSide ==
    ReportReturned =>
        /\ report.direct <=> (report.drug_b \in report.neighbors_a
                              \/ report.drug_a \in report.neighbors_b)
        /\ (report.neighbors_a = {} /\ report.neighbors_b = {})
              => ~report.direct

C8_Witness ==
    /\ ReportReturned
    /\ report.direct
    /\ report.drug_b \in report.neighbors_a
    /\ report.drug_a \notin report.neighbors_b

\* C9: the neighbor set of a subject is the union of what each adapter
\* returned for it, and is the same for every permutation of the adapter
\* results (hence for every order of the adapter list).
C9_NeighborsAreUnion ==
    ReportReturned =>
        /\ report.neighbors_a = Answered(outs_a)
        /\ report.neighbors_b = Answered(outs_b)
        /\ \A p \in Orderings(Len(sources)) :
              /\ UnionAll(Permuted(rets_a, p)) = report.neighbors_a
              /\ UnionAll(Permuted(rets_b, p)) = report.neighbors_b

C9_Witness ==
    /\ ReportReturned
    /\ outs_a = <<Returns({"x"}), Returns({}), Returns({"x", "y"})>>
    /\ report.neighbors_a = {"x", "y"}
    /\ outs_b = <<Returns({}), Returns({}), Returns({})>>
    /\ report.neighbors_b = {}

\* C10: an adapter's exception never leaves get_interaction_report: the
\* failing adapter contributes the empty set, every adapter is still invoked
\* for both subjects, the others' results are in the neighbor sets, and the
\* report is returned even when every adapter fails.
C10_AdapterFailureAbsorbed ==
    /\ r_outcome # "raised"
    /\ \A i \in 1..Len(rets_a) : ~outs_a[i].ok => rets_a[i] = {}
    /\ \A i \in 1..Len(rets_b) : ~outs_b[i].ok => rets_b[i] = {}
    /\ (rpc = "done" /\ calls # <<>>) => ReportReturned
    /\ ReportReturned =>
          /\ calls = ExpectedCalls
          /\ \A i \in 1..Len(sources) :
                /\ outs_a[i].ok => outs_a[i].val \subseteq report.neighbors_a
                /\ outs_b[i].ok => outs_b[i].val \subseteq report.neighbors_b
          /\ (\A i \in 1..Len(sources) : ~outs_a[i].ok)
                => report.neighbors_a = {}
          /\ (\A i \in 1..Len(sources) : ~outs_b[i].ok)
                => report.neighbors_b = {}

C10_Witness ==
    /\ ReportReturned
    /\ ~outs_a[1].ok /\ outs_a[2].ok /\ outs_a[2].val # {} /\ ~outs_a[3].ok
    /\ \A i \in 1..Len(sources) : ~outs_b[i].ok
    /\ report.neighbors_a = outs_a[2].val
    /\ report.neighbors_b = {}

(***************************************************************************)
(* Properties of truncate_text, checked under SpecTrunc.                   *)
(***************************************************************************)
\* C12: truncate_text(text, n) is the decoding of exactly the first
\* min(n, L) tokens of encode(text), L being the token count of text; a text
\* with L <= n keeps its token sequence; truncating the output again with
\* the same limit changes nothing.
C12_FirstMinTokens ==
    LET tokens == Encode(tt_text)
        L == Len(tokens)
    IN  /\ tt_pc \in {"once", "twice"} =>
              /\ tt_once = Decode(SubSeq(tokens, 1, Min(tt_n, L)))
              /\ L <= tt_n => Encode(tt_once) = tokens
        /\ tt_pc = "twice" => tt_twice = tt_once

(***************************************************************************)
(* Property of get_interaction_report with hanging sources, checked under  *)
(* SpecHang.                                                               *)
(***************************************************************************)
\* C13: a source call that never returns does not block the others: once
\* get_interaction_report has started querying, it eventually returns a
\* report.
C13_ReportEventuallyReturned == (rpc = "query_a") ~> ReportReturned

====
